---- MODULE Spec2Model ----
(***************************************************************************)
(* Context-currency state machine of glium's glutin backend.               *)
(*                                                                         *)
(* The shared cell Rc<RefCell<Takeable<WindowedContext>>> is the variable  *)
(* gl_window; the platform (glutin/EGL) side of the context token is the   *)
(* variable platform.  Every Backend / Display / WindowedContext method is *)
(* a pure operator from the state before the call to the state after it    *)
(* and the value returned (or the panic raised); each action applies one   *)
(* operator and records the call in last (the call before it in prev).     *)
(* refs counts the Ref guards of the cell that callers hold.               *)
(*                                                                         *)
(* Spec is the windowed backend driven by arbitrary calls, ExampleSpec the *)
(* event loop of examples/triangle-new.rs (its Option slots are slots and  *)
(* display_present, its progress is event_loop), HeadlessSpec the headless *)
(* backend (the variable headless).                                        *)
(***************************************************************************)
EXTENDS Integers, Sequences, FiniteSets

VARIABLES gl_window, platform, display_present, last_framebuffer_dimensions,
          last, prev, slots, event_loop, headless, refs

vars == <<gl_window, platform, display_present, last_framebuffer_dimensions,
          last, prev, slots, event_loop, headless, refs>>

----------------------------------------------------------------------------
(* Bounds and input domains *)

\* number of distinct window surfaces handed to make_current_with_surface
NumSurfaces == 2

Surfaces == 1..NumSurfaces

\* number of Ref guards of the cell that callers hold at once
MaxRefs == 1

\* the surface a context is bound to is a set of at most one surface; a
\* context made current before construction is bound to none of Surfaces
NoSurface == {}

DefaultWidth == 800

DefaultHeight == 600

Widths == {DefaultWidth, 1024}

Heights == {DefaultHeight, 768}

Dimensions == Widths \X Heights

\* placeholder for the framebuffer_dimensions field of a variant without one
NoDims == <<0, 0>>

----------------------------------------------------------------------------
(* Return values and panics *)

RetUnit == [outcome |-> "ok", panic |-> "none", kind |-> "unit", b |-> FALSE, d |-> NoDims]

RetBool(x) == [outcome |-> "ok", panic |-> "none", kind |-> "bool", b |-> x, d |-> NoDims]

RetDims(x) == [outcome |-> "ok", panic |-> "none", kind |-> "dims", b |-> FALSE, d |-> x]

RetPtr == [outcome |-> "ok", panic |-> "none", kind |-> "ptr", b |-> FALSE, d |-> NoDims]

Panic(msg) == [outcome |-> "panic", panic |-> msg, kind |-> "none", b |-> FALSE, d |-> NoDims]

\* Takeable: deref or take of a cell whose value has been taken
TakeableEmpty == "takeable empty"

\* todo!()
NotYetImplemented == "not yet implemented"

\* Result::unwrap on a platform error
UnwrapErr == "unwrap on Err"

\* RefCell::borrow_mut while a Ref of the cell is alive
AlreadyBorrowed == "already borrowed"

----------------------------------------------------------------------------
(* WindowedContext and the Takeable cell *)

FromNotCurrentContext == [state |-> "NotCurrent", framebuffer_dimensions |-> NoDims]

FromPossiblyCurrentContext ==
    [state |-> "PossiblyCurrent", framebuffer_dimensions |-> <<DefaultWidth, DefaultHeight>>]

\* the cell after Takeable::take
Taken == [state |-> "Empty", framebuffer_dimensions |-> NoDims]

IsUsable(cell) == cell.state # "Empty"

\* a call: the cell and platform after it, what it returned, the platform
\* calls it made in order, and the Takeable::take / insert calls it made
Call(cell, plat, ret, calls, takes, inserts) ==
    [window |-> cell, platform |-> plat, ret |-> ret, calls |-> calls,
     takes |-> takes, inserts |-> inserts]

\* a call that only reads the cell
Read(cell, plat, ret) == Call(cell, plat, ret, <<>>, 0, 0)

\* is_current that takes the context out of the cell to ask it
WindowedContext_is_current_Taking(cell, plat) ==
    IF ~IsUsable(cell) THEN Read(cell, plat, Panic(TakeableEmpty))
    ELSE IF cell.state = "NotCurrent" THEN Read(cell, plat, RetBool(FALSE))
    ELSE Call(Taken, plat, RetBool(plat.current), <<>>, 1, 0)

WindowedContext_is_current(cell, plat) ==
    IF ~IsUsable(cell) THEN Read(cell, plat, Panic(TakeableEmpty))
    ELSE IF cell.state = "NotCurrent" THEN Read(cell, plat, RetBool(FALSE))
    ELSE Read(cell, plat, RetBool(plat.current))

\* set_framebuffer_dimensions that skips a cell whose value has been taken
WindowedContext_set_framebuffer_dimensions_SkipEmpty(cell, plat, new_dimensions) ==
    IF cell.state = "PossiblyCurrent"
    THEN Read([cell EXCEPT !.framebuffer_dimensions = new_dimensions], plat, RetUnit)
    ELSE Read(cell, plat, RetUnit)

WindowedContext_set_framebuffer_dimensions(cell, plat, new_dimensions) ==
    IF ~IsUsable(cell) THEN Read(cell, plat, Panic(TakeableEmpty))
    ELSE IF cell.state = "PossiblyCurrent"
         THEN Read([cell EXCEPT !.framebuffer_dimensions = new_dimensions], plat, RetUnit)
    ELSE Read(cell, plat, RetUnit)

WindowedContext_display(cell, plat) ==
    IF ~IsUsable(cell) THEN Read(cell, plat, Panic(TakeableEmpty))
    ELSE Read(cell, plat, RetPtr)

----------------------------------------------------------------------------
(* impl Backend for GlutinBackend *)

\* symbol_nul: the symbol has an interior NUL, which CString::new rejects
GlutinBackend_get_proc_address(cell, plat, symbol_nul) ==
    IF symbol_nul THEN Read(cell, plat, Panic(UnwrapErr))
    ELSE IF ~IsUsable(cell) THEN Read(cell, plat, Panic(TakeableEmpty))
    ELSE Read(cell, plat, RetPtr)

\* get_framebuffer_dimensions that falls back to the default size
GlutinBackend_get_framebuffer_dimensions_Fallback(cell, plat) ==
    IF ~IsUsable(cell) THEN Read(cell, plat, Panic(TakeableEmpty))
    ELSE IF cell.state = "PossiblyCurrent"
         THEN Read(cell, plat, RetDims(cell.framebuffer_dimensions))
    ELSE Read(cell, plat, RetDims(<<DefaultWidth, DefaultHeight>>))

GlutinBackend_get_framebuffer_dimensions(cell, plat) ==
    IF ~IsUsable(cell) THEN Read(cell, plat, Panic(TakeableEmpty))
    ELSE IF cell.state = "PossiblyCurrent"
         THEN Read(cell, plat, RetDims(cell.framebuffer_dimensions))
    ELSE Read(cell, plat, Panic(NotYetImplemented))

\* set_framebuffer_dimensions that matches the variant but never replaces
GlutinBackend_set_framebuffer_dimensions_NoReplace(cell, plat, new_dimensions) ==
    IF ~IsUsable(cell) THEN Read(cell, plat, Panic(TakeableEmpty))
    ELSE Read(cell, plat, RetUnit)

\* set_framebuffer_dimensions that records the value in either variant
GlutinBackend_set_framebuffer_dimensions_AnyVariant(cell, plat, new_dimensions) ==
    IF ~IsUsable(cell) THEN Read(cell, plat, Panic(TakeableEmpty))
    ELSE Read([cell EXCEPT !.framebuffer_dimensions = new_dimensions], plat, RetUnit)

GlutinBackend_set_framebuffer_dimensions(cell, plat, new_dimensions) ==
    IF ~IsUsable(cell) THEN Read(cell, plat, Panic(TakeableEmpty))
    ELSE IF cell.state = "PossiblyCurrent"
         THEN Read([cell EXCEPT !.framebuffer_dimensions = new_dimensions], plat, RetUnit)
    ELSE Read(cell, plat, RetUnit)

\* is_current that answers true for any context it holds
GlutinBackend_is_current_AnyVariant(cell, plat) ==
    IF ~IsUsable(cell) THEN Read(cell, plat, Panic(TakeableEmpty))
    ELSE Read(cell, plat, RetBool(TRUE))

GlutinBackend_is_current(cell, plat) ==
    IF ~IsUsable(cell) THEN Read(cell, plat, Panic(TakeableEmpty))
    ELSE IF cell.state = "NotCurrent" THEN Read(cell, plat, RetBool(FALSE))
    ELSE Read(cell, plat, RetBool(plat.current))

GlutinBackend_prepare_to_swap_buffers(cell, plat) == Read(cell, plat, RetUnit)

GlutinBackend_make_current(cell, plat) == Read(cell, plat, RetUnit)

\* platform make_current(surface) on the token, then Takeable::insert of
\* its .unwrap().into(); calls are the platform calls made before it
BindAndInsert(plat, surface, mc_ok, calls) ==
    IF mc_ok
    THEN Call(FromPossiblyCurrentContext, [current |-> TRUE, surface |-> {surface}],
              RetUnit, Append(calls, "make_current"), 1, 1)
    ELSE Call(Taken, plat, Panic(UnwrapErr), Append(calls, "make_current"), 1, 0)

\* make_current_with_surface that binds the new surface without releasing
GlutinBackend_make_current_with_surface_DirectBind(cell, plat, borrowed, surface, mnc_ok, mc_ok) ==
    IF borrowed THEN Read(cell, plat, Panic(AlreadyBorrowed))
    ELSE IF ~IsUsable(cell) THEN Read(cell, plat, Panic(TakeableEmpty))
    ELSE BindAndInsert(plat, surface, mc_ok, <<>>)

\* make_current_with_surface that ignores the result of make_not_current
GlutinBackend_make_current_with_surface_IgnoreErr(cell, plat, borrowed, surface, mnc_ok, mc_ok) ==
    IF borrowed THEN Read(cell, plat, Panic(AlreadyBorrowed))
    ELSE IF ~IsUsable(cell) THEN Read(cell, plat, Panic(TakeableEmpty))
    ELSE IF cell.state = "NotCurrent"
         THEN BindAndInsert(plat, surface, mc_ok, <<>>)
    ELSE BindAndInsert(IF mnc_ok THEN [current |-> FALSE, surface |-> NoSurface] ELSE plat,
                       surface, mc_ok, <<"make_not_current">>)

\* make_current_with_surface that keeps the dimensions recorded before a rebinding
GlutinBackend_make_current_with_surface_CarryOver(cell, plat, borrowed, surface, mnc_ok, mc_ok) ==
    IF borrowed THEN Read(cell, plat, Panic(AlreadyBorrowed))
    ELSE IF ~IsUsable(cell) THEN Read(cell, plat, Panic(TakeableEmpty))
    ELSE IF cell.state = "NotCurrent"
         THEN BindAndInsert(plat, surface, mc_ok, <<>>)
    ELSE IF ~mnc_ok
         THEN Call(Taken, plat, Panic(UnwrapErr), <<"make_not_current">>, 1, 0)
    ELSE IF mc_ok
         THEN Call(cell, [current |-> TRUE, surface |-> {surface}], RetUnit,
                   <<"make_not_current", "make_current">>, 1, 1)
    ELSE Call(Taken, [current |-> FALSE, surface |-> NoSurface], Panic(UnwrapErr),
              <<"make_not_current", "make_current">>, 1, 0)

\* borrowed: a Ref of the cell is alive, so borrow_mut panics;
\* mnc_ok, mc_ok: whether the platform accepts make_not_current / make_current
GlutinBackend_make_current_with_surface(cell, plat, borrowed, surface, mnc_ok, mc_ok) ==
    IF borrowed THEN Read(cell, plat, Panic(AlreadyBorrowed))
    ELSE IF ~IsUsable(cell) THEN Read(cell, plat, Panic(TakeableEmpty))
    ELSE IF cell.state = "NotCurrent"
         THEN BindAndInsert(plat, surface, mc_ok, <<>>)
    ELSE IF ~mnc_ok
         THEN Call(Taken, plat, Panic(UnwrapErr), <<"make_not_current">>, 1, 0)
    ELSE BindAndInsert([current |-> FALSE, surface |-> NoSurface], surface, mc_ok,
                       <<"make_not_current">>)

----------------------------------------------------------------------------
(* impl Backend for Rc<T> *)

Rc_is_current(cell, plat) == GlutinBackend_is_current(cell, plat)

Rc_get_framebuffer_dimensions(cell, plat) == GlutinBackend_get_framebuffer_dimensions(cell, plat)

Rc_set_framebuffer_dimensions(cell, plat, new_dimensions) ==
    GlutinBackend_set_framebuffer_dimensions(cell, plat, new_dimensions)

Rc_get_proc_address(cell, plat, symbol_nul) ==
    GlutinBackend_get_proc_address(cell, plat, symbol_nul)

----------------------------------------------------------------------------
(* Display *)

Display_set_framebuffer_dimensions(cell, plat, new_dimensions) ==
    IF ~IsUsable(cell) THEN Read(cell, plat, Panic(TakeableEmpty))
    ELSE IF cell.state = "PossiblyCurrent"
         THEN Read([cell EXCEPT !.framebuffer_dimensions = new_dimensions], plat, RetUnit)
    ELSE Read(cell, plat, RetUnit)

\* Display::gl_window: RefCell::borrow, which succeeds unless a RefMut is
\* alive, and none outlives make_current_with_surface
Display_gl_window(cell, plat) == Read(cell, plat, RetPtr)

\* Context::get_framebuffer_dimensions: the core asks its backend
Context_get_framebuffer_dimensions(cell, plat) == Rc_get_framebuffer_dimensions(cell, plat)

\* Display::draw: the Frame's dimensions, and last_framebuffer_dimensions after
Display_draw(cell, plat, last_dims) ==
    LET r == Context_get_framebuffer_dimensions(cell, plat)
    IN  IF r.ret.outcome = "panic" THEN [call |-> r, last_dims |-> last_dims]
        ELSE IF last_dims # r.ret.d THEN [call |-> r, last_dims |-> r.ret.d]
        ELSE [call |-> r, last_dims |-> last_dims]

----------------------------------------------------------------------------
(* The parts of the program a specification does not run *)

\* the example's slots other than glium_context, all None
NoSlots ==
    [surface |-> NoSurface, vertex_buffer |-> FALSE, index_buffer |-> FALSE,
     program |-> FALSE]

\* the event loop before any Resumed or Suspended event
LoopStart == [lifecycle |-> "none", exit |-> "running"]

\* no Headless has been constructed
NoHeadless == [present |-> FALSE, framebuffer_dimensions |-> NoDims, current |-> FALSE]

\* no Display has been constructed: there is no cell
NoDisplay == [state |-> "Absent", framebuffer_dimensions |-> NoDims]

\* the platform holds no context of this program
NoContext == [current |-> FALSE, surface |-> NoSurface]

----------------------------------------------------------------------------
(* State machine *)

Ops == {"make_current_with_surface", "GlutinBackend::set_framebuffer_dimensions",
        "WindowedContext::set_framebuffer_dimensions",
        "Display::set_framebuffer_dimensions", "get_framebuffer_dimensions",
        "GlutinBackend::is_current", "WindowedContext::is_current", "Rc::is_current",
        "get_proc_address", "display", "draw", "prepare_to_swap_buffers", "make_current",
        "gl_window", "drop(Ref)"}

\* the record of one call: operation, cell before it and whether a Ref
\* of it was alive, arguments, result
Record(op, dimArg, surfArg, mnc_ok, mc_ok, r) ==
    [op |-> op, pre |-> gl_window, borrowed |-> refs > 0, dimArg |-> dimArg,
     surfArg |-> surfArg,
     mnc_ok |-> mnc_ok, mc_ok |-> mc_ok, symbol_nul |-> FALSE, ret |-> r.ret,
     calls |-> r.calls, takes |-> r.takes, inserts |-> r.inserts]

NoCall ==
    [op |-> "none", pre |-> Taken, borrowed |-> FALSE, dimArg |-> NoDims,
     surfArg |-> NoSurface,
     mnc_ok |-> TRUE, mc_ok |-> TRUE, symbol_nul |-> FALSE, ret |-> RetUnit,
     calls |-> <<>>, takes |-> 0, inserts |-> 0]

\* Display::new_inner from a possibly-current context, or a GlutinBackend over
\* a cell built from a not-current context
Init ==
    /\ \/ /\ gl_window = FromPossiblyCurrentContext
          /\ platform \in [current : BOOLEAN, surface : {NoSurface}]
          /\ display_present = TRUE
       \/ /\ gl_window = FromNotCurrentContext
          /\ platform = [current |-> FALSE, surface |-> NoSurface]
          /\ display_present = FALSE
    /\ last_framebuffer_dimensions = <<0, 0>>
    /\ last = NoCall
    /\ prev = NoCall
    /\ slots = NoSlots
    /\ event_loop = LoopStart
    /\ headless = NoHeadless
    /\ refs = 0

\* the call r of operation op is made on the backend
Apply(op, dimArg, surfArg, mnc_ok, mc_ok, r) ==
    /\ gl_window' = r.window
    /\ platform' = r.platform
    /\ last' = Record(op, dimArg, surfArg, mnc_ok, mc_ok, r)
    /\ prev' = last
    /\ UNCHANGED <<display_present, last_framebuffer_dimensions, slots, event_loop, headless,
                   refs>>

MakeCurrentWithSurface ==
    \E s \in Surfaces, mnc_ok \in BOOLEAN, mc_ok \in BOOLEAN :
        Apply("make_current_with_surface", NoDims, {s}, mnc_ok, mc_ok,
              GlutinBackend_make_current_with_surface(gl_window, platform, refs > 0, s,
                                                      mnc_ok, mc_ok))

BackendSetFramebufferDimensions ==
    \E nd \in Dimensions :
        Apply("GlutinBackend::set_framebuffer_dimensions", nd, NoSurface, TRUE, TRUE,
              Rc_set_framebuffer_dimensions(gl_window, platform, nd))

WindowedContextSetFramebufferDimensions ==
    \E nd \in Dimensions :
        Apply("WindowedContext::set_framebuffer_dimensions", nd, NoSurface, TRUE, TRUE,
              WindowedContext_set_framebuffer_dimensions(gl_window, platform, nd))

DisplaySetFramebufferDimensions ==
    /\ display_present
    /\ \E nd \in Dimensions :
        Apply("Display::set_framebuffer_dimensions", nd, NoSurface, TRUE, TRUE,
              Display_set_framebuffer_dimensions(gl_window, platform, nd))

GetFramebufferDimensions ==
    Apply("get_framebuffer_dimensions", NoDims, NoSurface, TRUE, TRUE,
          Rc_get_framebuffer_dimensions(gl_window, platform))

BackendIsCurrent ==
    Apply("GlutinBackend::is_current", NoDims, NoSurface, TRUE, TRUE,
          GlutinBackend_is_current(gl_window, platform))

WindowedContextIsCurrent ==
    Apply("WindowedContext::is_current", NoDims, NoSurface, TRUE, TRUE,
          WindowedContext_is_current(gl_window, platform))

RcIsCurrent ==
    Apply("Rc::is_current", NoDims, NoSurface, TRUE, TRUE, Rc_is_current(gl_window, platform))

GetProcAddress ==
    \E symbol_nul \in BOOLEAN :
        LET r == Rc_get_proc_address(gl_window, platform, symbol_nul)
        IN  /\ gl_window' = r.window
            /\ platform' = r.platform
            /\ last' = [Record("get_proc_address", NoDims, NoSurface, TRUE, TRUE, r)
                            EXCEPT !.symbol_nul = symbol_nul]
            /\ prev' = last
            /\ UNCHANGED <<display_present, last_framebuffer_dimensions, slots, event_loop,
                           headless, refs>>

WindowedContextDisplay ==
    Apply("display", NoDims, NoSurface, TRUE, TRUE,
          WindowedContext_display(gl_window, platform))

PrepareToSwapBuffers ==
    Apply("prepare_to_swap_buffers", NoDims, NoSurface, TRUE, TRUE,
          GlutinBackend_prepare_to_swap_buffers(gl_window, platform))

MakeCurrent ==
    Apply("make_current", NoDims, NoSurface, TRUE, TRUE,
          GlutinBackend_make_current(gl_window, platform))

Draw ==
    /\ display_present
    /\ LET r == Display_draw(gl_window, platform, last_framebuffer_dimensions)
       IN  /\ gl_window' = r.call.window
           /\ platform' = r.call.platform
           /\ last_framebuffer_dimensions' = r.last_dims
           /\ last' = Record("draw", NoDims, NoSurface, TRUE, TRUE, r.call)
           /\ prev' = last
           /\ UNCHANGED <<display_present, slots, event_loop, headless, refs>>

\* Display::gl_window: the caller gets a Ref of the cell and keeps it
GlWindow ==
    /\ display_present
    /\ refs < MaxRefs
    /\ refs' = refs + 1
    /\ last' = Record("gl_window", NoDims, NoSurface, TRUE, TRUE,
                      Display_gl_window(gl_window, platform))
    /\ prev' = last
    /\ UNCHANGED <<gl_window, platform, display_present, last_framebuffer_dimensions,
                   slots, event_loop, headless>>

\* the caller drops a Ref it got from Display::gl_window
DropRef ==
    /\ refs > 0
    /\ refs' = refs - 1
    /\ last' = Record("drop(Ref)", NoDims, NoSurface, TRUE, TRUE,
                      Read(gl_window, platform, RetUnit))
    /\ prev' = last
    /\ UNCHANGED <<gl_window, platform, display_present, last_framebuffer_dimensions,
                   slots, event_loop, headless>>

Next ==
    \/ MakeCurrentWithSurface
    \/ BackendSetFramebufferDimensions
    \/ WindowedContextSetFramebufferDimensions
    \/ DisplaySetFramebufferDimensions
    \/ GetFramebufferDimensions
    \/ BackendIsCurrent
    \/ WindowedContextIsCurrent
    \/ RcIsCurrent
    \/ GetProcAddress
    \/ WindowedContextDisplay
    \/ PrepareToSwapBuffers
    \/ MakeCurrent
    \/ Draw
    \/ GlWindow
    \/ DropRef

Spec == Init /\ [][Next]_vars

\* the states of the windowed backend under Spec
TypeOK ==
    /\ gl_window.state \in {"NotCurrent", "PossiblyCurrent", "Empty"}
    /\ gl_window.framebuffer_dimensions \in Dimensions \cup {NoDims}
    /\ platform \in [current : BOOLEAN, surface : {NoSurface} \cup {{s} : s \in Surfaces}]
    /\ display_present \in BOOLEAN
    /\ last_framebuffer_dimensions \in Dimensions \cup {NoDims}
    /\ last.op \in Ops \cup {"none"}
    /\ prev.op \in Ops \cup {"none"}
    /\ slots = NoSlots
    /\ event_loop = LoopStart
    /\ headless = NoHeadless
    /\ refs \in 0..MaxRefs

----------------------------------------------------------------------------
(* Headless backend (backend/glutin/headless.rs) *)

\* a call on the headless backend: the Headless after it and what it returned
HCall(h, ret) ==
    [headless |-> h, ret |-> ret, calls |-> <<>>, takes |-> 0, inserts |-> 0]

\* Headless::new_inner; current is the platform's answer for the context
Headless_new_inner(current) ==
    [present |-> TRUE, framebuffer_dimensions |-> <<DefaultWidth, DefaultHeight>>,
     current |-> current]

Headless_get_proc_address(h, symbol_nul) ==
    IF symbol_nul THEN HCall(h, Panic(UnwrapErr)) ELSE HCall(h, RetPtr)

\* get_framebuffer_dimensions that reads the Cell the Headless was built with
Headless_get_framebuffer_dimensions_ReadsCell(h) ==
    HCall(h, RetDims(h.framebuffer_dimensions))

Headless_get_framebuffer_dimensions(h) == HCall(h, Panic(NotYetImplemented))

Headless_set_framebuffer_dimensions(h, new_dimensions) == HCall(h, Panic(NotYetImplemented))

Headless_is_current(h) == HCall(h, RetBool(h.current))

Headless_gl_context(h) == HCall(h, RetPtr)

\* Context::get_framebuffer_dimensions over the headless backend
HeadlessContext_get_framebuffer_dimensions(h) == Headless_get_framebuffer_dimensions(h)

\* Headless::draw: Frame::new is reached only with the dimensions in hand
Headless_draw(h) ==
    LET r == HeadlessContext_get_framebuffer_dimensions(h)
    IN  IF r.ret.outcome = "panic" THEN r ELSE HCall(r.headless, RetUnit)

HeadlessOps == {"Headless::get_proc_address", "Headless::get_framebuffer_dimensions",
                "Headless::set_framebuffer_dimensions", "Headless::is_current",
                "Headless::gl_context", "Headless::draw"}

HeadlessInit ==
    /\ headless \in {Headless_new_inner(current) : current \in BOOLEAN}
    /\ gl_window = NoDisplay
    /\ platform = NoContext
    /\ display_present = FALSE
    /\ last_framebuffer_dimensions = NoDims
    /\ last = NoCall
    /\ prev = NoCall
    /\ slots = NoSlots
    /\ event_loop = LoopStart
    /\ refs = 0

\* the call r of operation op is made on the headless backend
HApply(op, dimArg, symbol_nul, r) ==
    /\ headless' = r.headless
    /\ last' = [Record(op, dimArg, NoSurface, TRUE, TRUE, r) EXCEPT !.symbol_nul = symbol_nul]
    /\ prev' = last
    /\ UNCHANGED <<gl_window, platform, display_present, last_framebuffer_dimensions,
                   slots, event_loop, refs>>

HeadlessGetProcAddress ==
    \E symbol_nul \in BOOLEAN :
        HApply("Headless::get_proc_address", NoDims, symbol_nul,
               Headless_get_proc_address(headless, symbol_nul))

HeadlessGetFramebufferDimensions ==
    HApply("Headless::get_framebuffer_dimensions", NoDims, FALSE,
           Headless_get_framebuffer_dimensions(headless))

HeadlessSetFramebufferDimensions ==
    \E nd \in Dimensions :
        HApply("Headless::set_framebuffer_dimensions", nd, FALSE,
               Headless_set_framebuffer_dimensions(headless, nd))

HeadlessIsCurrent ==
    HApply("Headless::is_current", NoDims, FALSE, Headless_is_current(headless))

HeadlessGlContext ==
    HApply("Headless::gl_context", NoDims, FALSE, Headless_gl_context(headless))

HeadlessDraw ==
    HApply("Headless::draw", NoDims, FALSE, Headless_draw(headless))

HeadlessNext ==
    \/ HeadlessGetProcAddress
    \/ HeadlessGetFramebufferDimensions
    \/ HeadlessSetFramebufferDimensions
    \/ HeadlessIsCurrent
    \/ HeadlessGlContext
    \/ HeadlessDraw

HeadlessSpec == HeadlessInit /\ [][HeadlessNext]_vars

----------------------------------------------------------------------------
(* Example event loop (examples/triangle-new.rs) *)

\* Option::unwrap on None
UnwrapNone == "unwrap on None"

\* where the Resumed handler can panic, in program order
ResumedFailures ==
    {"none", "create_context", "inner_size", "create_window_surface", "make_current",
     "from_current_context", "vertex_buffer", "index_buffer", "program"}

\* the program after a handler: the Display's cell and platform context, the
\* glium_context slot (present), the other slots, and how the handler ended
App(cell, plat, present, last_dims, sl, ret, calls) ==
    [window |-> cell, platform |-> plat, present |-> present, last_dims |-> last_dims,
     slots |-> sl, ret |-> ret, calls |-> calls, takes |-> 0, inserts |-> 0]

\* Resumed handler that never fills the program slot
Resumed_handler_NoProgram(cell, plat, present, last_dims, sl, s, fail) ==
    LET sl1 == [sl EXCEPT !.surface = {s}]
        sl2 == [sl1 EXCEPT !.vertex_buffer = TRUE]
        sl3 == [sl2 EXCEPT !.index_buffer = TRUE]
        sl4 == sl3
        bound == [current |-> TRUE, surface |-> {s}]
        made(sl_, ret) ==
            App(FromPossiblyCurrentContext, bound, TRUE, <<0, 0>>, sl_, ret, <<"make_current">>)
    IN  IF fail = "inner_size"
        THEN App(cell, plat, present, last_dims, sl, Panic(UnwrapNone), <<>>)
        ELSE IF fail \in {"create_context", "create_window_surface"}
        THEN App(cell, plat, present, last_dims, sl, Panic(UnwrapErr), <<>>)
        ELSE IF fail = "make_current"
        THEN App(cell, plat, present, last_dims, sl1, Panic(UnwrapErr), <<"make_current">>)
        ELSE IF fail = "from_current_context"
        THEN App(cell, [plat EXCEPT !.current = FALSE], present, last_dims, sl1,
                 Panic(UnwrapErr), <<"make_current">>)
        ELSE IF fail = "vertex_buffer" THEN made(sl1, Panic(UnwrapErr))
        ELSE IF fail = "index_buffer" THEN made(sl2, Panic(UnwrapErr))
        ELSE IF fail = "program" THEN made(sl3, Panic(UnwrapErr))
        ELSE made(sl4, RetUnit)

\* s: the window surface created; fail: the step that panics, if any
\* ("inner_size": the window is missing or has a zero width or height, an
\* Option::unwrap on None; every other step is an unwrap or expect on Err)
Resumed_handler(cell, plat, present, last_dims, sl, s, fail) ==
    LET sl1 == [sl EXCEPT !.surface = {s}]
        sl2 == [sl1 EXCEPT !.vertex_buffer = TRUE]
        sl3 == [sl2 EXCEPT !.index_buffer = TRUE]
        sl4 == [sl3 EXCEPT !.program = TRUE]
        bound == [current |-> TRUE, surface |-> {s}]
        made(sl_, ret) ==
            App(FromPossiblyCurrentContext, bound, TRUE, <<0, 0>>, sl_, ret, <<"make_current">>)
    IN  IF fail = "inner_size"
        THEN App(cell, plat, present, last_dims, sl, Panic(UnwrapNone), <<>>)
        ELSE IF fail \in {"create_context", "create_window_surface"}
        THEN App(cell, plat, present, last_dims, sl, Panic(UnwrapErr), <<>>)
        ELSE IF fail = "make_current"
        THEN App(cell, plat, present, last_dims, sl1, Panic(UnwrapErr), <<"make_current">>)
        ELSE IF fail = "from_current_context"
        THEN App(cell, [plat EXCEPT !.current = FALSE], present, last_dims, sl1,
                 Panic(UnwrapErr), <<"make_current">>)
        ELSE IF fail = "vertex_buffer" THEN made(sl1, Panic(UnwrapErr))
        ELSE IF fail = "index_buffer" THEN made(sl2, Panic(UnwrapErr))
        ELSE IF fail = "program" THEN made(sl3, Panic(UnwrapErr))
        ELSE made(sl4, RetUnit)

\* Suspended handler that forgets to drop the Display
Suspended_handler_KeepsContext(cell, plat, present, last_dims, sl) ==
    App(cell, plat, present, last_dims, NoSlots, RetUnit, <<>>)

\* all five slots are set to None; the Display and its context are dropped
Suspended_handler(cell, plat, present, last_dims, sl) ==
    App(NoDisplay, NoContext, FALSE, NoDims, NoSlots, RetUnit, <<>>)

\* draw_ok, finish_ok, swap_ok: whether Frame::draw, Frame::finish and
\* Surface::swap_buffers succeed
RedrawRequested_handler(cell, plat, present, last_dims, sl, draw_ok, finish_ok, swap_ok) ==
    IF ~present THEN App(cell, plat, present, last_dims, sl, Panic(UnwrapNone), <<>>)
    ELSE LET r == Display_draw(cell, plat, last_dims)
             after(ret) == App(cell, plat, present, r.last_dims, sl, ret, <<>>)
         IN  IF r.call.ret.outcome = "panic" THEN after(r.call.ret)
             ELSE IF ~(sl.vertex_buffer /\ sl.index_buffer /\ sl.program)
             THEN after(Panic(UnwrapNone))
             ELSE IF ~draw_ok \/ ~finish_ok THEN after(Panic(UnwrapErr))
             ELSE IF ~IsUsable(cell) THEN after(Panic(TakeableEmpty))
             ELSE IF cell.state # "PossiblyCurrent" THEN after(RetUnit)
             ELSE IF sl.surface = NoSurface THEN after(Panic(UnwrapNone))
             ELSE IF ~swap_ok THEN after(Panic(UnwrapErr))
             ELSE after(RetUnit)

Resized_handler(cell, plat, present, last_dims, sl, size) ==
    IF ~present THEN App(cell, plat, present, last_dims, sl, Panic(UnwrapNone), <<>>)
    ELSE LET r == WindowedContext_set_framebuffer_dimensions(cell, plat, size)
         IN  App(r.window, r.platform, present, last_dims, sl, r.ret, <<>>)

Events == {"Resumed", "Suspended", "RedrawRequested", "Resized", "CloseRequested", "Other"}

ExampleInit ==
    /\ gl_window = NoDisplay
    /\ platform = NoContext
    /\ display_present = FALSE
    /\ last_framebuffer_dimensions = NoDims
    /\ last = NoCall
    /\ prev = NoCall
    /\ slots = NoSlots
    /\ event_loop = LoopStart
    /\ headless = NoHeadless
    /\ refs = 0

\* the handler of event ev has ended as a; a panic unwinds out of the loop
Handle(ev, dimArg, surfArg, lifecycle, a) ==
    /\ event_loop.exit = "running"
    /\ gl_window' = a.window
    /\ platform' = a.platform
    /\ display_present' = a.present
    /\ last_framebuffer_dimensions' = a.last_dims
    /\ slots' = a.slots
    /\ event_loop' = [lifecycle |-> lifecycle,
                      exit |-> IF a.ret.outcome = "panic" THEN "panicked"
                               ELSE event_loop.exit]
    /\ last' = Record(ev, dimArg, surfArg, TRUE, TRUE, a)
    /\ prev' = last
    /\ UNCHANGED <<headless, refs>>

Resumed ==
    \E s \in Surfaces, fail \in ResumedFailures :
        Handle("Resumed", NoDims, {s}, "Resumed",
               Resumed_handler(gl_window, platform, display_present,
                               last_framebuffer_dimensions, slots, s, fail))

Suspended ==
    Handle("Suspended", NoDims, NoSurface, "Suspended",
           Suspended_handler(gl_window, platform, display_present,
                             last_framebuffer_dimensions, slots))

RedrawRequested ==
    \E draw_ok \in BOOLEAN, finish_ok \in BOOLEAN, swap_ok \in BOOLEAN :
        Handle("RedrawRequested", NoDims, NoSurface, event_loop.lifecycle,
               RedrawRequested_handler(gl_window, platform, display_present,
                                       last_framebuffer_dimensions, slots,
                                       draw_ok, finish_ok, swap_ok))

Resized ==
    \E size \in Dimensions :
        Handle("Resized", size, NoSurface, event_loop.lifecycle,
               Resized_handler(gl_window, platform, display_present,
                               last_framebuffer_dimensions, slots, size))

\* every other event leaves the program as it is
OtherEvent ==
    Handle("Other", NoDims, NoSurface, event_loop.lifecycle,
           App(gl_window, platform, display_present, last_framebuffer_dimensions, slots,
               RetUnit, <<>>))

CloseRequested ==
    /\ event_loop.exit = "running"
    /\ event_loop' = [event_loop EXCEPT !.exit = "exited"]
    /\ last' = Record("CloseRequested", NoDims, NoSurface, TRUE, TRUE,
                      App(gl_window, platform, display_present,
                          last_framebuffer_dimensions, slots, RetUnit, <<>>))
    /\ prev' = last
    /\ UNCHANGED <<gl_window, platform, display_present, last_framebuffer_dimensions,
                   slots, headless, refs>>

ExampleNext ==
    \/ Resumed
    \/ Suspended
    \/ RedrawRequested
    \/ Resized
    \/ OtherEvent
    \/ CloseRequested

ExampleSpec == ExampleInit /\ [][ExampleNext]_vars

----------------------------------------------------------------------------
(* Properties *)

IsCurrentOps == {"GlutinBackend::is_current", "WindowedContext::is_current", "Rc::is_current"}

SetOps == {"GlutinBackend::set_framebuffer_dimensions",
           "WindowedContext::set_framebuffer_dimensions",
           "Display::set_framebuffer_dimensions"}

Default == <<DefaultWidth, DefaultHeight>>

\* the three ways to ask whether the context is current, in the state s, p
IsCurrentAnswers(cell, plat) ==
    {GlutinBackend_is_current(cell, plat).ret, WindowedContext_is_current(cell, plat).ret,
     Rc_is_current(cell, plat).ret}

\* C1: is_current() reflects the most recent successful transition: it is
\* false whenever the cell holds NotCurrent (by construction), and true after
\* a successful make_current_with_surface for as long as that binding stands.
C1_IsCurrentReflectsTransition ==
    /\ gl_window.state = "NotCurrent" => IsCurrentAnswers(gl_window, platform) = {RetBool(FALSE)}
    /\ (gl_window.state = "PossiblyCurrent" /\ platform.surface # NoSurface)
          => IsCurrentAnswers(gl_window, platform) = {RetBool(TRUE)}
    /\ (last.op = "make_current_with_surface" /\ last.ret.outcome = "ok")
          => /\ platform.surface = last.surfArg
             /\ IsCurrentAnswers(gl_window, platform) = {RetBool(TRUE)}
    /\ (last.op \in IsCurrentOps /\ last.pre.state = "NotCurrent") => last.ret = RetBool(FALSE)
    /\ (last.op \in IsCurrentOps /\ prev.op = "make_current_with_surface"
            /\ prev.ret.outcome = "ok") => last.ret = RetBool(TRUE)

\* is_current() is asked right after a rebinding of a current context succeeded
C1_Witness ==
    /\ last.op = "GlutinBackend::is_current"
    /\ last.ret = RetBool(TRUE)
    /\ prev.op = "make_current_with_surface"
    /\ prev.pre.state = "PossiblyCurrent"
    /\ prev.ret.outcome = "ok"

\* C2: while Current, set_framebuffer_dimensions((w, h)) through any of the
\* three writers followed immediately by get_framebuffer_dimensions() returns
\* exactly (w, h).
C2_SetGetRoundTrip ==
    /\ (last.op \in SetOps /\ last.pre.state = "PossiblyCurrent")
          => /\ last.ret = RetUnit
             /\ GlutinBackend_get_framebuffer_dimensions(gl_window, platform).ret
                    = RetDims(last.dimArg)
    /\ (last.op = "get_framebuffer_dimensions" /\ prev.op \in SetOps
            /\ prev.pre.state = "PossiblyCurrent")
          => last.ret = RetDims(prev.dimArg)

\* the backend getter reads (1024, 768) right after the backend setter wrote it
C2_Witness ==
    /\ last.op = "get_framebuffer_dimensions"
    /\ last.ret = RetDims(<<1024, 768>>)
    /\ prev.op = "GlutinBackend::set_framebuffer_dimensions"
    /\ prev.pre = FromPossiblyCurrentContext
    /\ prev.dimArg = <<1024, 768>>

\* C3: set_framebuffer_dimensions((w, h)) while NotCurrent raises no error
\* and changes no state, and the value is discarded: after the next successful
\* make_current_with_surface the recorded dimensions are the default (800, 600).
C3_SetWhileNotCurrentDiscarded ==
    [][ /\ (last'.op \in SetOps /\ gl_window.state = "NotCurrent")
              => /\ last'.ret = RetUnit
                 /\ UNCHANGED <<gl_window, platform, last_framebuffer_dimensions>>
        /\ (last.op \in SetOps /\ last.pre.state = "NotCurrent"
                /\ last'.op = "make_current_with_surface" /\ last'.ret.outcome = "ok")
              => GlutinBackend_get_framebuffer_dimensions(gl_window', platform').ret
                    = RetDims(Default) ]_vars

\* (1024, 768) was set while NotCurrent, then the context was made current
C3_Witness ==
    /\ last.op = "make_current_with_surface"
    /\ last.ret.outcome = "ok"
    /\ prev.op = "GlutinBackend::set_framebuffer_dimensions"
    /\ prev.pre.state = "NotCurrent"
    /\ prev.dimArg = <<1024, 768>>
    /\ gl_window.framebuffer_dimensions = Default

\* C4: get_framebuffer_dimensions() while NotCurrent never returns a
\* dimensions value; it fails, and the context state after the failed call is
\* the state before it.
C4_GetWhileNotCurrentFails ==
    [][ (last'.op = "get_framebuffer_dimensions" /\ gl_window.state = "NotCurrent")
            => /\ last'.ret.outcome = "panic"
               /\ last'.ret.kind # "dims"
               /\ UNCHANGED <<gl_window, platform, last_framebuffer_dimensions>> ]_vars

\* get_framebuffer_dimensions() has been called on a NotCurrent context
C4_Witness ==
    /\ last.op = "get_framebuffer_dimensions"
    /\ last.pre.state = "NotCurrent"
    /\ last.ret = Panic(NotYetImplemented)
    /\ gl_window = last.pre

\* C5: reading the framebuffer dimensions while NotCurrent is surfaced to the
\* caller as a reportable error outcome, not as a panic.
C5_InvalidStateReported ==
    (last.op = "get_framebuffer_dimensions" /\ last.pre.state = "NotCurrent")
        => last.ret.outcome # "panic"

\* every call that observes the cell, made in the state cell, plat
\* (get_proc_address reaches the cell only for a symbol CString::new accepts)
Observations(cell, plat) ==
    {GlutinBackend_is_current(cell, plat), WindowedContext_is_current(cell, plat),
     Rc_is_current(cell, plat), GlutinBackend_get_framebuffer_dimensions(cell, plat),
     Rc_get_framebuffer_dimensions(cell, plat),
     GlutinBackend_get_proc_address(cell, plat, FALSE),
     Rc_get_proc_address(cell, plat, FALSE), WindowedContext_display(cell, plat)}
    \cup {GlutinBackend_set_framebuffer_dimensions(cell, plat, nd) : nd \in Dimensions}
    \cup {WindowedContext_set_framebuffer_dimensions(cell, plat, nd) : nd \in Dimensions}
    \cup {Rc_set_framebuffer_dimensions(cell, plat, nd) : nd \in Dimensions}
    \cup {Display_set_framebuffer_dimensions(cell, plat, nd) : nd \in Dimensions}

ObservingOps == IsCurrentOps \cup SetOps \cup
    {"get_framebuffer_dimensions", "get_proc_address", "display", "draw"}

\* C6: make_current_with_surface on a Current context calls platform
\* make_not_current first and make_current second, never make_current alone;
\* it ends with the cell holding a Current context bound to the new surface
\* exactly when the cell is not borrowed and the platform accepts both steps,
\* and otherwise fails: before touching anything when the cell is borrowed,
\* else with the cell empty, a state in which no observing call is accepted.
C6_RebindReleasesThenAcquires ==
    /\ (last.op = "make_current_with_surface" /\ last.pre.state = "PossiblyCurrent")
          => /\ last.calls \in {<<>>, <<"make_not_current">>,
                                <<"make_not_current", "make_current">>}
             /\ (~last.borrowed /\ last.mnc_ok /\ last.mc_ok) <=> last.ret.outcome = "ok"
             /\ \/ /\ last.ret = RetUnit
                   /\ last.calls = <<"make_not_current", "make_current">>
                   /\ gl_window.state = "PossiblyCurrent"
                   /\ platform = [current |-> TRUE, surface |-> last.surfArg]
                \/ /\ last.ret = Panic(UnwrapErr)
                   /\ last.calls # <<>>
                   /\ ~IsUsable(gl_window)
                \/ /\ last.ret = Panic(AlreadyBorrowed)
                   /\ last.borrowed
                   /\ last.calls = <<>>
                   /\ last.takes = 0
                   /\ gl_window = last.pre
    /\ ~IsUsable(gl_window) => \A c \in Observations(gl_window, platform) : c.ret.outcome # "ok"

\* a Current context bound to surface 1 has been rebound to surface 2
C6_Witness ==
    /\ last.op = "make_current_with_surface"
    /\ last.pre.state = "PossiblyCurrent"
    /\ last.surfArg = {2}
    /\ last.ret = RetUnit
    /\ prev.op = "make_current_with_surface"
    /\ prev.surfArg = {1}
    /\ prev.ret = RetUnit
    /\ platform.surface = {2}

\* C7: in the rebinding path, if platform make_not_current fails then the
\* operation fails, make_current is never attempted, and the cell holds no
\* context in either state.  (The rebinding path is entered once borrow_mut
\* has succeeded, that is when no Ref of the cell is alive.)
C7_ReleaseFailureLosesToken ==
    (last.op = "make_current_with_surface" /\ last.pre.state = "PossiblyCurrent"
        /\ ~last.borrowed /\ ~last.mnc_ok)
        => /\ last.ret = Panic(UnwrapErr)
           /\ \A i \in 1..Len(last.calls) : last.calls[i] # "make_current"
           /\ last.calls = <<"make_not_current">>
           /\ gl_window.state \notin {"PossiblyCurrent", "NotCurrent"}
           /\ last.inserts = 0

\* a rebinding whose make_not_current step the platform rejected, although
\* it would have accepted make_current
C7_Witness ==
    /\ last.op = "make_current_with_surface"
    /\ last.pre.state = "PossiblyCurrent"
    /\ ~last.mnc_ok
    /\ last.mc_ok
    /\ last.ret.outcome = "panic"
    /\ gl_window = Taken

\* C8: between operations the cell holds a context in exactly one of the
\* states NotCurrent and Current; it is never empty.
C8_ExactlyTwoStates == gl_window.state \in {"NotCurrent", "PossiblyCurrent"}

\* C9: is_current() has no side effects: it leaves the context state, the
\* recorded dimensions and last_framebuffer_dimensions unchanged, and two
\* consecutive calls return the same value.
C9_IsCurrentNoSideEffects ==
    /\ [][ last'.op \in IsCurrentOps
             => UNCHANGED <<gl_window, platform, last_framebuffer_dimensions,
                            display_present>> ]_vars
    /\ []((last.op \in IsCurrentOps /\ prev.op \in IsCurrentOps) => last.ret = prev.ret)

\* is_current() answered true twice in a row, through two of its entry points
C9_Witness ==
    /\ last.op = "Rc::is_current"
    /\ prev.op = "WindowedContext::is_current"
    /\ last.ret = RetBool(TRUE)
    /\ prev.ret = RetBool(TRUE)
    /\ gl_window.framebuffer_dimensions = <<1024, 768>>

\* C10: a take that is not matched by an insert is caught: when
\* make_current_with_surface fails at either platform step the cell is left
\* empty, it stays empty, and every later observation of it panics without
\* returning a value or changing anything; every call that succeeds has made
\* as many inserts as takes, make_current_with_surface exactly one of each.
C10_UnmatchedTakeIsCaught ==
    /\ [][ ~IsUsable(gl_window) => ~IsUsable(gl_window') ]_vars
    /\ []((last.op = "make_current_with_surface" /\ last.ret = Panic(UnwrapErr))
            => (last.takes = 1 /\ last.inserts = 0 /\ ~IsUsable(gl_window)))
    /\ [](~IsUsable(gl_window)
            => \A c \in Observations(gl_window, platform) :
                  c.ret = Panic(TakeableEmpty) /\ c.window = gl_window)
    /\ []((last.op \in ObservingOps /\ ~IsUsable(last.pre))
            => /\ last.ret.outcome = "panic"
               /\ ~last.symbol_nul => last.ret = Panic(TakeableEmpty)
               /\ gl_window = last.pre)
    /\ [](last.ret.outcome = "ok" => last.takes = last.inserts)
    /\ []((last.op = "make_current_with_surface" /\ last.ret.outcome = "ok")
            => (last.takes = 1 /\ last.inserts = 1))

\* make_not_current succeeded, make_current failed, and the next
\* set_framebuffer_dimensions panicked on the empty cell
C10_Witness ==
    /\ last.op = "WindowedContext::set_framebuffer_dimensions"
    /\ last.pre = Taken
    /\ last.ret = Panic(TakeableEmpty)
    /\ prev.op = "make_current_with_surface"
    /\ prev.pre.state = "PossiblyCurrent"
    /\ prev.mnc_ok
    /\ ~prev.mc_ok
    /\ prev.ret = Panic(UnwrapErr)

\* C12: every successful entry into the Current state resets the recorded
\* framebuffer dimensions to (800, 600): after construction from a current
\* context and after every successful make_current_with_surface, a rebinding
\* included, get_framebuffer_dimensions() returns (800, 600), and it keeps
\* returning what it returned until a set_framebuffer_dimensions or another
\* make_current_with_surface.
C12_EntryResetsDimensions ==
    /\ []((last.op = "none" /\ gl_window.state = "PossiblyCurrent")
            => GlutinBackend_get_framebuffer_dimensions(gl_window, platform).ret
                  = RetDims(Default))
    /\ []((last.op = "make_current_with_surface" /\ last.ret.outcome = "ok")
            => GlutinBackend_get_framebuffer_dimensions(gl_window, platform).ret
                  = RetDims(Default))
    /\ [][ (gl_window.state = "PossiblyCurrent" /\ gl_window'.state = "PossiblyCurrent"
               /\ last'.op \notin SetOps \cup {"make_current_with_surface"})
             => GlutinBackend_get_framebuffer_dimensions(gl_window', platform').ret
                  = GlutinBackend_get_framebuffer_dimensions(gl_window, platform).ret ]_vars

\* a Current context whose dimensions had been set to (1024, 768) was rebound
C12_Witness ==
    /\ last.op = "make_current_with_surface"
    /\ last.ret = RetUnit
    /\ last.pre.state = "PossiblyCurrent"
    /\ last.pre.framebuffer_dimensions = <<1024, 768>>
    /\ gl_window.framebuffer_dimensions = Default

\* C14: on the headless backend get_framebuffer_dimensions() and
\* set_framebuffer_dimensions() fail in every state, returning and recording
\* nothing, so Headless.framebuffer_dimensions stays (800, 600) and is never
\* returned by any call, while is_current() answers from the platform context
\* without failing.
C14_HeadlessDimensionsUnreachable ==
    /\ headless.framebuffer_dimensions = Default
    /\ Headless_get_framebuffer_dimensions(headless) = HCall(headless, Panic(NotYetImplemented))
    /\ \A nd \in Dimensions :
          Headless_set_framebuffer_dimensions(headless, nd)
              = HCall(headless, Panic(NotYetImplemented))
    /\ Headless_draw(headless).ret.outcome = "panic"
    /\ Headless_is_current(headless) = HCall(headless, RetBool(headless.current))
    /\ last.ret.kind # "dims"
    /\ last.op \in {"Headless::get_framebuffer_dimensions",
                    "Headless::set_framebuffer_dimensions", "Headless::draw"}
          => last.ret = Panic(NotYetImplemented)
    /\ last.op = "Headless::is_current" => last.ret = RetBool(headless.current)

\* set_framebuffer_dimensions((1024, 768)) has failed on a headless backend
\* whose is_current() had just answered true
C14_Witness ==
    /\ last.op = "Headless::set_framebuffer_dimensions"
    /\ last.dimArg = <<1024, 768>>
    /\ last.ret = Panic(NotYetImplemented)
    /\ prev.op = "Headless::is_current"
    /\ prev.ret = RetBool(TRUE)
    /\ headless.framebuffer_dimensions = Default

\* the five Option slots of the example
AllPresent ==
    /\ slots.surface # NoSurface
    /\ display_present
    /\ slots.vertex_buffer
    /\ slots.index_buffer
    /\ slots.program

AllAbsent ==
    /\ slots.surface = NoSurface
    /\ ~display_present
    /\ ~slots.vertex_buffer
    /\ ~slots.index_buffer
    /\ ~slots.program

\* C11: in the example, a handled Resumed leaves a surface and a Display whose
\* context is Current on that surface, and they stay until the next
\* Suspended; after Suspended and until the next Resumed no surface is held
\* and no context is held in the Current state.
C11_TransitionsFollowLifecycle ==
    /\ (last.op = "Resumed" /\ last.ret = RetUnit)
          => /\ slots.surface = last.surfArg
             /\ gl_window = FromPossiblyCurrentContext
             /\ platform = [current |-> TRUE, surface |-> slots.surface]
    /\ (event_loop.lifecycle = "Resumed" /\ ~(last.op = "Resumed" /\ last.ret.outcome = "panic"))
          => /\ slots.surface # NoSurface
             /\ display_present
             /\ gl_window.state = "PossiblyCurrent"
             /\ platform.surface = slots.surface
             /\ GlutinBackend_is_current(gl_window, platform).ret = RetBool(TRUE)
    /\ event_loop.lifecycle = "Suspended"
          => /\ slots.surface = NoSurface
             /\ ~display_present
             /\ gl_window.state # "PossiblyCurrent"

\* Suspended was handled right after a Resumed that had made a context current
C11_Witness ==
    /\ last.op = "Suspended"
    /\ last.pre.state = "PossiblyCurrent"
    /\ prev.op = "Resumed"
    /\ prev.ret = RetUnit
    /\ slots.surface = NoSurface
    /\ ~display_present

\* C13: in the example, after every event whose handler returned the five
\* slots are all present or all absent, all present iff the most recent of
\* Resumed/Suspended was Resumed; a RedrawRequested or Resized handled while
\* glium_context is absent panics in unwrap without drawing or recording
\* dimensions.
C13_SlotsAllOrNone ==
    /\ [](last.ret.outcome = "ok"
            => /\ AllPresent \/ AllAbsent
               /\ AllPresent <=> event_loop.lifecycle = "Resumed")
    /\ [][ (last'.op \in {"RedrawRequested", "Resized"} /\ ~display_present)
             => /\ last'.ret = Panic(UnwrapNone)
                /\ event_loop'.exit = "panicked"
                /\ UNCHANGED <<gl_window, platform, display_present,
                               last_framebuffer_dimensions, slots>> ]_vars

\* RedrawRequested arrived after Suspended and its handler panicked
C13_Witness ==
    /\ last.op = "RedrawRequested"
    /\ last.ret = Panic(UnwrapNone)
    /\ prev.op = "Suspended"
    /\ prev.pre.state = "PossiblyCurrent"
    /\ AllAbsent
    /\ event_loop.exit = "panicked"

====
